---- MODULE Spec2Model ----
(***************************************************************************)
(* Workspace drag/drop and nesting engine of the class-based block editor  *)
(* (BaseBlock / RootBlock / ContainerBlock / SimpleBlock / Workspace).     *)
(*                                                                         *)
(* The DOM is modelled by the child sequences of the workspace element and *)
(* of every block's slot, the inline style, class list and dataset of      *)
(* every block element, and the document-level listeners.  Geometry is in  *)
(* CSS pixels; the browser's layout (getBoundingClientRect, offsetWidth,   *)
(* elementsFromPoint) is modelled by a flow layout of the rendered         *)
(* template: header, slot holding the nested items one under another,      *)
(* footer.                                                                 *)
(***************************************************************************)
EXTENDS Integers, Sequences, FiniteSets, TLC

VARIABLES
    blocks,       \* block id -> [name, category, kind]: the BaseBlock instances
    kids,         \* node -> sequence of child items; node 0 is the workspace
                  \* element, node b > 0 is the slot of block b
    el,           \* block id -> inline style, classes and dataset of its element
    hi,           \* owners of the slots that carry the class drag-over
    activeBlock,  \* Workspace.activeBlock (0 is null)
    offset,       \* Workspace.offset
    moveL,        \* number of document mousemove listeners registered
    upL,          \* number of pending once-only document mouseup listeners
    ws,           \* <<width, height>> of the workspace rectangle
    placeholder,  \* number of .workspace-placeholder elements in the document
    page,         \* [anchors, listeners, started]: the elements App looks up in the
                  \* page, the listeners App.start has installed, and whether
                  \* start has returned
    menu          \* the sliding menu with the timed hide animation (src/js/index.ts):
                  \* [panel, activeButton, cats, isAnimating, timers], and guarded:
                  \* whether the outside click tests isAnimating (src/js/index.js)

vars == <<blocks, kids, el, hi, activeBlock, offset, moveL, upL, ws, placeholder, page, menu>>

-----------------------------------------------------------------------------
(* Bounds of the model *)

MaxBlocks == 2       \* blocks ever created by drops
MaxListeners == 2    \* document mousemove listeners ever registered
MaxDrags == 3        \* drags of the nesting scenario
MaxTimers == 2       \* hide timers of the menu pending at one time

-----------------------------------------------------------------------------
(* Program constants *)

NoBlock == 0
WsNode == 0
NoParent == -1
Unset == -1
ZBase == 10
ZDrag == 1000
ProbeDY == 10
NegInf == -1000000
StartName == "Nachalo"      \* the reserved start-block name (transliterated)

Categories == {"starts", "operator", "variable", "event"}
Kinds == {"Root", "Container", "Simple"}

\* every payload the menu can serialise
AllSpecs == [name : {StartName, "X"}, category : Categories]

\* the payloads of the menu entries used for drops
Menu == { [name |-> StartName, category |-> "starts"],
          [name |-> "X", category |-> "operator"],
          [name |-> "X", category |-> "variable"] }

-----------------------------------------------------------------------------
(* Environment: workspace rectangle, pointer positions, rendered geometry *)

\* client coordinates of the workspace's top-left corner
WsOrigin == <<8, 6>>
WsLeft == WsOrigin[1]
WsTop == WsOrigin[2]
WsSizes == { <<800, 600>>, <<200, 300>> }

\* rendered template: header above the slot, footer below, slot inset
Geometry == [ baseW |-> 160, simpleH |-> 300, headerH |-> 0, footerH |-> 6,
              slotInset |-> 16, slotMinH |-> 150 ]

\* where a block is grabbed, relative to its top-left corner
GrabPoints == { <<8, 6>> }
\* pointer positions of mousemove events (client coordinates)
MovePoints == { <<296, 180>>, <<8000, -6000>> }
\* pointer positions of menu drops
DropPoints == { <<344, 234>> }

-----------------------------------------------------------------------------
(* Utilities *)

Range(s) == { s[i] : i \in DOMAIN s }
Max(a, b) == IF a >= b THEN a ELSE b
Min(a, b) == IF a <= b THEN a ELSE b

\* clamp with the two bounds applied in the other order
ClampUpperBoundLast(v, min, max) == Min(max, Max(min, v))

\* Utils.clamp
Clamp(v, min, max) == Max(min, Min(v, max))

\* sequence s without its i-th element
RemoveAt(s, i) == [ j \in 1..(Len(s) - 1) |-> IF j < i THEN s[j] ELSE s[j + 1] ]
\* sequence s without the element b
Without(s, b) == SelectSeq(s, LAMBDA x : x # b)
\* sequence s with b inserted before position i
InsertAt(s, i, b) ==
    [ j \in 1..(Len(s) + 1) |-> IF j < i THEN s[j] ELSE IF j = i THEN b ELSE s[j - 1] ]
IndexOf(s, b) == CHOOSE i \in DOMAIN s : s[i] = b

Ids == DOMAIN blocks

-----------------------------------------------------------------------------
(* Block classes *)

\* getInnerTemplate: does the rendered element hold a .block-slot
HasSlot(kind) == kind \in {"Root", "Container"}

\* canAccept that answers true for every class
CanAcceptAlways(kind, childCategory) == TRUE

\* canAccept of RootBlock, ContainerBlock, SimpleBlock
CanAccept(kind, childCategory) ==
    CASE kind = "Root" -> TRUE
      [] kind = "Container" -> TRUE
      [] kind = "Simple" -> FALSE

\* isMovableToSlot that answers true for every class
IsMovableToSlotAlways(kind) == TRUE

\* isMovableToSlot of RootBlock, ContainerBlock, SimpleBlock
IsMovableToSlot(kind) ==
    CASE kind = "Root" -> FALSE
      [] kind = "Container" -> TRUE
      [] kind = "Simple" -> TRUE

\* createBlock that looks at the category before the name
CreateBlockCategoryFirst(data) ==
    IF data.category = "starts" \/ data.category = "operator" THEN "Container"
    ELSE IF data.name = StartName THEN "Root"
    ELSE "Simple"

\* Workspace.createBlock: the class chosen for a payload
CreateBlock(data) ==
    IF data.name = StartName THEN "Root"
    ELSE IF data.category = "starts" \/ data.category = "operator" THEN "Container"
    ELSE "Simple"

\* BaseBlock.render: inline style, classes and dataset of a new element
Render == [ position |-> "absolute", left |-> Unset, top |-> Unset, zIndex |-> ZBase,
            dragging |-> FALSE, leftPercent |-> Unset, topPercent |-> Unset ]

-----------------------------------------------------------------------------
(* DOM tree *)

\* parentElement of block b, as a node: 0, the owner of the slot, or NoParent
Parent(K, b) ==
    IF \E p \in DOMAIN K : b \in Range(K[p])
    THEN CHOOSE p \in DOMAIN K : b \in Range(K[p])
    ELSE NoParent

RECURSIVE AncN(_, _, _)
AncN(K, b, n) ==
    IF n = 0 THEN {}
    ELSE LET p == Parent(K, b)
         IN  IF p = NoParent THEN {}
             ELSE IF p = WsNode THEN {WsNode}
             ELSE {p} \cup AncN(K, p, n - 1)

\* the nodes above block b
Anc(K, b) == AncN(K, b, Cardinality(DOMAIN K))

\* the block's element is connected to the document
InDoc(K, b) == WsNode \in Anc(K, b)

\* a.element.contains(slot of s)
Contains(K, a, s) == s = a \/ a \in Anc(K, s)

\* the blocks of b's subtree, b included
Subtree(K, b) == { s \in DOMAIN K \ {WsNode} : Contains(K, b, s) }

\* document.querySelectorAll('.workspace-item')
Items(K) == { b \in DOMAIN K \ {WsNode} : InDoc(K, b) }

-----------------------------------------------------------------------------
(* Layout.  D is a document: [b |-> blocks, k |-> kids, e |-> el]. *)

Doc == [ b |-> blocks, k |-> kids, e |-> el ]

RECURSIVE Width(_, _), Height(_, _), MaxWidths(_, _), SumHeights(_, _)

MaxWidths(D, s) ==
    IF s = <<>> THEN 0 ELSE Max(Width(D, Head(s)), MaxWidths(D, Tail(s)))

SumHeights(D, s) ==
    IF s = <<>> THEN 0 ELSE Height(D, Head(s)) + SumHeights(D, Tail(s))

\* rendered width of a block: its own content, or its slot around the nested items
Width(D, b) ==
    IF HasSlot(D.b[b].kind)
    THEN 2 * Geometry.slotInset + Max(Geometry.baseW, MaxWidths(D, D.k[b]))
    ELSE Geometry.baseW

\* rendered height of a block: header, slot as tall as the nested items, footer
Height(D, b) ==
    IF HasSlot(D.b[b].kind)
    THEN Geometry.headerH + Max(Geometry.slotMinH, SumHeights(D, D.k[b])) + Geometry.footerH
    ELSE Geometry.simpleH

\* element.offsetWidth / offsetHeight (0 for an element outside the document)
OffsetWidth(D, b) == IF InDoc(D.k, b) THEN Width(D, b) ELSE 0
OffsetHeight(D, b) == IF InDoc(D.k, b) THEN Height(D, b) ELSE 0

ZeroRect == [ left |-> 0, top |-> 0, width |-> 0, height |-> 0 ]

RECURSIVE Rect(_, _), SlotRect(_, _)

\* element.getBoundingClientRect() of block b, in client coordinates
Rect(D, b) ==
    IF ~InDoc(D.k, b) THEN ZeroRect
    ELSE LET p == Parent(D.k, b)
         IN  IF p = WsNode
             THEN [ left |-> WsLeft + D.e[b].left, top |-> WsTop + D.e[b].top,
                    width |-> Width(D, b), height |-> Height(D, b) ]
             ELSE LET s == SlotRect(D, p)
                      i == IndexOf(D.k[p], b)
                  IN  [ left |-> s.left + D.e[b].left,
                        top |-> s.top + SumHeights(D, SubSeq(D.k[p], 1, i - 1)) + D.e[b].top,
                        width |-> Width(D, b), height |-> Height(D, b) ]

\* getBoundingClientRect() of the .block-slot of block p
SlotRect(D, p) ==
    LET r == Rect(D, p)
    IN  [ left |-> r.left + Geometry.slotInset, top |-> r.top + Geometry.headerH,
          width |-> r.width - 2 * Geometry.slotInset,
          height |-> r.height - Geometry.headerH - Geometry.footerH ]

Hit(r, x, y) ==
    /\ r.left <= x /\ x < r.left + r.width
    /\ r.top <= y /\ y < r.top + r.height

RECURSIVE TopFirst(_, _)
\* the items of s from the topmost painted to the bottommost: higher z-index
\* first, later in document order first among equals
TopFirst(D, s) ==
    IF s = <<>> THEN <<>>
    ELSE LET i == CHOOSE i \in DOMAIN s : \A j \in DOMAIN s :
                      \/ D.e[s[j]].zIndex < D.e[s[i]].zIndex
                      \/ (D.e[s[j]].zIndex = D.e[s[i]].zIndex /\ j <= i)
         IN  <<s[i]>> \o TopFirst(D, RemoveAt(s, i))

RECURSIVE StackOf(_, _, _, _), StackOfAll(_, _, _, _)

\* the elements of block b's subtree under the point, topmost first
StackOf(D, b, x, y) ==
    StackOfAll(D, TopFirst(D, D.k[b]), x, y)
    \o (IF HasSlot(D.b[b].kind) /\ Hit(SlotRect(D, b), x, y)
        THEN << [t |-> "slot", b |-> b] >> ELSE <<>>)
    \o (IF Hit(Rect(D, b), x, y) THEN << [t |-> "item", b |-> b] >> ELSE <<>>)

StackOfAll(D, s, x, y) ==
    IF s = <<>> THEN <<>> ELSE StackOf(D, Head(s), x, y) \o StackOfAll(D, Tail(s), x, y)

\* document.elementsFromPoint(x, y), restricted to items and slots
ElementsFromPoint(D, x, y) == StackOfAll(D, TopFirst(D, D.k[WsNode]), x, y)

-----------------------------------------------------------------------------
(* Workspace helpers *)

\* the loop of findValidSlot that keeps the last target whose test passes
LastMatch(targets, ok) ==
    IF \E i \in DOMAIN targets : ok[i]
    THEN targets[CHOOSE i \in DOMAIN targets :
                    ok[i] /\ \A j \in (i + 1)..Len(targets) : ~ok[j]].b
    ELSE NoBlock

\* the for-of loop of findValidSlot: the owner of the first target whose test
\* ok[i] passes, or NoBlock when the loop runs out
FirstMatch(targets, ok) ==
    IF \E i \in DOMAIN targets : ok[i]
    THEN targets[CHOOSE i \in DOMAIN targets : ok[i] /\ \A j \in 1..(i - 1) : ~ok[j]].b
    ELSE NoBlock

\* findValidSlot without the contains test
FindValidSlotNoContains(D, A, x, y) ==
    IF A = NoBlock THEN NoBlock
    ELSE IF ~IsMovableToSlot(D.b[A].kind) THEN NoBlock
    ELSE LET targets == ElementsFromPoint(D, x, y)
             Ok(t) == /\ t.t = "slot"
                      /\ CanAccept(D.b[t.b].kind, D.b[A].category)
         IN  FirstMatch(targets, [ i \in DOMAIN targets |-> Ok(targets[i]) ])

\* findValidSlot that compares the slot's owner with the active block instead of
\* asking whether the active element contains the slot
FindValidSlotOwnSlotOnly(D, A, x, y) ==
    IF A = NoBlock THEN NoBlock
    ELSE IF ~IsMovableToSlot(D.b[A].kind) THEN NoBlock
    ELSE LET targets == ElementsFromPoint(D, x, y)
             Ok(t) == /\ t.t = "slot"
                      /\ CanAccept(D.b[t.b].kind, D.b[A].category)
                      /\ t.b # A
         IN  FirstMatch(targets, [ i \in DOMAIN targets |-> Ok(targets[i]) ])

\* findValidSlot that takes the first element under the point outside the active
\* block, slot or not, without asking its owner
FindValidSlotAnyElement(D, A, x, y) ==
    IF A = NoBlock THEN NoBlock
    ELSE IF ~IsMovableToSlot(D.b[A].kind) THEN NoBlock
    ELSE LET targets == ElementsFromPoint(D, x, y)
             Ok(t) == ~Contains(D.k, A, t.b)
         IN  FirstMatch(targets, [ i \in DOMAIN targets |-> Ok(targets[i]) ])

\* Workspace.findValidSlot with active block A: the owner of the slot found, or NoBlock
FindValidSlot(D, A, x, y) ==
    IF A = NoBlock THEN NoBlock
    ELSE IF ~IsMovableToSlot(D.b[A].kind) THEN NoBlock
    ELSE LET targets == ElementsFromPoint(D, x, y)
             Ok(t) == /\ t.t = "slot"
                      /\ CanAccept(D.b[t.b].kind, D.b[A].category)
                      /\ ~Contains(D.k, A, t.b)
         IN  FirstMatch(targets, [ i \in DOMAIN targets |-> Ok(targets[i]) ])

RECURSIVE InsertFoldNearestAbove(_, _, _, _)
\* the reduce that keeps the nearest child whose middle lies above the line y
InsertFoldNearestAbove(D, s, y, acc) ==
    IF s = <<>> THEN acc
    ELSE LET box == Rect(D, Head(s))
             off == y - (box.top + box.height \div 2)
         IN  InsertFoldNearestAbove(D, Tail(s), y,
                        IF off > 0 /\ (acc.element = NoBlock \/ off < acc.offset)
                        THEN [offset |-> off, element |-> Head(s)] ELSE acc)

RECURSIVE InsertFoldFarthest(_, _, _, _)
\* the reduce that keeps the farthest child whose middle lies below the line y
InsertFoldFarthest(D, s, y, acc) ==
    IF s = <<>> THEN acc
    ELSE LET box == Rect(D, Head(s))
             off == y - (box.top + box.height \div 2)
         IN  InsertFoldFarthest(D, Tail(s), y,
                        IF off < 0 /\ (acc.element = NoBlock \/ off < acc.offset)
                        THEN [offset |-> off, element |-> Head(s)] ELSE acc)

RECURSIVE InsertFold(_, _, _, _)
\* the reduce of getInsertAfter over the children s, from the accumulator acc
InsertFold(D, s, y, acc) ==
    IF s = <<>> THEN acc
    ELSE LET box == Rect(D, Head(s))
             off == y - (box.top + box.height \div 2)
         IN  InsertFold(D, Tail(s), y,
                        IF off < 0 /\ off > acc.offset
                        THEN [offset |-> off, element |-> Head(s)] ELSE acc)

\* Workspace.getInsertAfter: the child before which to insert, or NoBlock
GetInsertAfter(D, slot, y) ==
    InsertFold(D, SelectSeq(D.k[slot], LAMBDA c : ~D.e[c].dragging), y,
               [offset |-> NegInf, element |-> NoBlock]).element

\* clearHighlights that removes the class from no slot
ClearHighlightsNone(D, H) == H

\* Workspace.clearHighlights: the class is removed from the slots in the document
ClearHighlights(D, H) == { s \in H : ~InDoc(D.k, s) }

\* updateDataPercents that persists the position of the blocks that carry no
\* percentages yet and leaves the others as they are
UpdateDataPercentsOnce(D, W) ==
    [ b \in DOMAIN D.e |->
        IF InDoc(D.k, b) /\ Parent(D.k, b) = WsNode /\ D.e[b].leftPercent = Unset
        THEN [ D.e[b] EXCEPT !.leftPercent = (D.e[b].left * 100) \div W[1],
                             !.topPercent = (D.e[b].top * 100) \div W[2] ]
        ELSE D.e[b] ]

\* Workspace.updateDataPercents: the style and dataset of every element afterwards
UpdateDataPercents(D, W) ==
    [ b \in DOMAIN D.e |->
        IF InDoc(D.k, b) /\ Parent(D.k, b) = WsNode
        THEN [ D.e[b] EXCEPT !.leftPercent = (D.e[b].left * 100) \div W[1],
                             !.topPercent = (D.e[b].top * 100) \div W[2] ]
        ELSE D.e[b] ]

\* updatePositions that keeps every block inside the new rectangle and persists
\* the position it has set
UpdatePositionsRepersist(D, W) ==
    [ b \in DOMAIN D.e |->
        IF InDoc(D.k, b) /\ Parent(D.k, b) = WsNode
        THEN LET lp == IF D.e[b].leftPercent = Unset THEN 0 ELSE D.e[b].leftPercent
                 tp == IF D.e[b].topPercent = Unset THEN 0 ELSE D.e[b].topPercent
                 x == Clamp((lp * W[1]) \div 100, 0, W[1] - OffsetWidth(D, b))
                 y == Clamp((tp * W[2]) \div 100, 0, W[2] - OffsetHeight(D, b))
             IN  [ D.e[b] EXCEPT !.left = x, !.top = y,
                                 !.leftPercent = (x * 100) \div W[1],
                                 !.topPercent = (y * 100) \div W[2] ]
        ELSE D.e[b] ]

\* updatePositions that scales left by the height and top by the width
UpdatePositionsSwapped(D, W) ==
    [ b \in DOMAIN D.e |->
        IF InDoc(D.k, b) /\ Parent(D.k, b) = WsNode
        THEN LET lp == IF D.e[b].leftPercent = Unset THEN 0 ELSE D.e[b].leftPercent
                 tp == IF D.e[b].topPercent = Unset THEN 0 ELSE D.e[b].topPercent
             IN  [ D.e[b] EXCEPT !.left = (lp * W[2]) \div 100,
                                 !.top = (tp * W[1]) \div 100 ]
        ELSE D.e[b] ]

\* Workspace.updatePositions: the style of every element after a resize to W
UpdatePositions(D, W) ==
    [ b \in DOMAIN D.e |->
        IF InDoc(D.k, b) /\ Parent(D.k, b) = WsNode
        THEN LET lp == IF D.e[b].leftPercent = Unset THEN 0 ELSE D.e[b].leftPercent
                 tp == IF D.e[b].topPercent = Unset THEN 0 ELSE D.e[b].topPercent
             IN  [ D.e[b] EXCEPT !.left = (lp * W[1]) \div 100,
                                 !.top = (tp * W[2]) \div 100 ]
        ELSE D.e[b] ]

\* checkEmpty that does not look for a placeholder already in the page
CheckEmptyAlwaysInserts(K, ph) == IF Items(K) = {} THEN ph + 1 ELSE ph

\* Workspace.checkEmpty: the number of placeholders afterwards
CheckEmpty(K, ph) == IF Items(K) = {} /\ ph = 0 THEN 1 ELSE ph

\* parent.removeChild / element.remove(): b leaves its parent
Detach(K, b) == [ n \in DOMAIN K |-> Without(K[n], b) ]

\* an appendChild after which b is the only child of p
AppendChildReplaces(K, p, b) == [ Detach(K, b) EXCEPT ![p] = <<b>> ]

\* slot.appendChild(b)
AppendChild(K, p, b) ==
    LET K1 == Detach(K, b) IN [ K1 EXCEPT ![p] = Append(K1[p], b) ]

\* slot.insertBefore(b, a)
InsertBefore(K, p, b, a) ==
    LET K1 == Detach(K, b) IN [ K1 EXCEPT ![p] = InsertAt(K1[p], IndexOf(K1[p], a), b) ]

\* dragging that toggles the class drag-over of the slot under the pointer and
\* does not clear the highlights first
DraggingTogglesHighlight(D, H, A, off, W, px, py) ==
    IF A = NoBlock THEN [ e |-> D.e, h |-> H ]
    ELSE LET x == Clamp(px - off.x - WsLeft, 0, W[1] - OffsetWidth(D, A))
             y == Clamp(py - off.y - WsTop, 0, W[2] - OffsetHeight(D, A))
             E1 == [ D.e EXCEPT ![A].left = x, ![A].top = y ]
             D1 == [ D EXCEPT !.e = E1 ]
             targetSlot == FindValidSlot(D1, A, px, py)
         IN  [ e |-> E1,
               h |-> IF targetSlot = NoBlock THEN H
                     ELSE IF targetSlot \in H THEN H \ {targetSlot}
                     ELSE H \cup {targetSlot} ]

\* dragging that also persists the percentages of the position it sets
DraggingUpdatesPercents(D, H, A, off, W, px, py) ==
    IF A = NoBlock THEN [ e |-> D.e, h |-> H ]
    ELSE LET x == Clamp(px - off.x - WsLeft, 0, W[1] - OffsetWidth(D, A))
             y == Clamp(py - off.y - WsTop, 0, W[2] - OffsetHeight(D, A))
             E1 == [ D.e EXCEPT ![A].left = x, ![A].top = y,
                                ![A].leftPercent = (x * 100) \div W[1],
                                ![A].topPercent = (y * 100) \div W[2] ]
             D1 == [ D EXCEPT !.e = E1 ]
             H1 == ClearHighlights(D1, H)
             targetSlot == FindValidSlot(D1, A, px, py)
         IN  [ e |-> E1, h |-> IF targetSlot # NoBlock THEN H1 \cup {targetSlot} ELSE H1 ]

\* Workspace.dragging for one mousemove at (px, py): [e |-> el, h |-> hi] afterwards
Dragging(D, H, A, off, W, px, py) ==
    IF A = NoBlock THEN [ e |-> D.e, h |-> H ]
    ELSE LET x == Clamp(px - off.x - WsLeft, 0, W[1] - OffsetWidth(D, A))
             y == Clamp(py - off.y - WsTop, 0, W[2] - OffsetHeight(D, A))
             E1 == [ D.e EXCEPT ![A].left = x, ![A].top = y ]
             D1 == [ D EXCEPT !.e = E1 ]
             H1 == ClearHighlights(D1, H)
             targetSlot == FindValidSlot(D1, A, px, py)
         IN  [ e |-> E1, h |-> IF targetSlot # NoBlock THEN H1 \cup {targetSlot} ELSE H1 ]

RECURSIVE DraggingAll(_, _, _, _, _, _, _, _)
\* every registered mousemove listener handles the same event in turn
DraggingAll(D, H, A, off, W, px, py, n) ==
    IF n = 0 THEN [ e |-> D.e, h |-> H ]
    ELSE LET r == Dragging(D, H, A, off, W, px, py)
         IN  DraggingAll([ D EXCEPT !.e = r.e ], r.h, A, off, W, px, py, n - 1)

\* the point dragEnd probes for block b: the middle of its top edge, ProbeDY below
ProbeOf(D, b) ==
    LET rect == Rect(D, b) IN << rect.left + rect.width \div 2, rect.top + ProbeDY >>

\* the insertion that puts the block first in the slot when there is no afterEl
InsertIntoFront(K, slot, A, afterEl) ==
    IF afterEl # NoBlock THEN InsertBefore(K, slot, A, afterEl)
    ELSE LET K1 == Detach(K, A) IN [ K1 EXCEPT ![slot] = <<A>> \o K1[slot] ]

\* dragEnd, the insertion: before afterEl when there is one, else at the end
InsertInto(K, slot, A, afterEl) ==
    IF afterEl # NoBlock THEN InsertBefore(K, slot, A, afterEl) ELSE AppendChild(K, slot, A)

\* the style of an element put into a slot that keeps its pixel offsets
SeatedKeepsOffsets(E, A) == [ E EXCEPT ![A].position = "relative" ]

\* dragEnd, the style of an element put into a slot
Seated(E, A) == [ E EXCEPT ![A].position = "relative", ![A].left = 0, ![A].top = 0 ]

\* the z-index is reset and the class dragging is left on the element
ReleasedKeepsMarker(E, A) == [ E EXCEPT ![A].zIndex = ZBase ]

\* dragEnd, the z-index and the class dragging are reset
Released(E, A) == [ E EXCEPT ![A].zIndex = ZBase, ![A].dragging = FALSE ]

\* the end of dragEnd without the call of updateDataPercents
SettledWithoutPercents(D2, H, W) ==
    [ k |-> D2.k, e |-> D2.e, h |-> ClearHighlights(D2, H) ]

\* dragEnd, the last two calls on the document D2 the insertion left
Settled(D2, H, W) ==
    [ k |-> D2.k, e |-> UpdateDataPercents(D2, W), h |-> ClearHighlights(D2, H) ]

\* dragEnd of active block A once findValidSlot has answered slot for the probe
\* at height py
DragEndInto(D, H, A, W, slot, py) ==
    Settled([ D EXCEPT
                !.k = IF slot = NoBlock THEN D.k
                      ELSE InsertInto(D.k, slot, A, GetInsertAfter(D, slot, py)),
                !.e = Released(IF slot = NoBlock THEN D.e ELSE Seated(D.e, A), A) ],
            H, W)

\* dragEnd that nests the block into the slot the last mousemove highlighted
DragEndUsesHighlight(D, H, A, W) ==
    LET marked == { s \in H : InDoc(D.k, s) /\ ~Contains(D.k, A, s) }
    IN  DragEndInto(D, H, A, W,
                    IF marked = {} THEN NoBlock ELSE CHOOSE s \in marked : TRUE,
                    ProbeOf(D, A)[2])

\* Workspace.dragEnd with active block A: [k |-> kids, e |-> el, h |-> hi] afterwards
DragEnd(D, H, A, W) ==
    DragEndInto(D, H, A, W,
                FindValidSlot(D, A, ProbeOf(D, A)[1], ProbeOf(D, A)[2]), ProbeOf(D, A)[2])

-----------------------------------------------------------------------------
(* State after new App() and App.start(): Workspace.init has run *)

\* the keys of SlidingMenu.buttons and SlidingMenu.categories
MenuKeys == { "starts", "operators", "variables", "events" }
NoKey == "null"

\* the callbacks handed to hide: what the callback does when it is called
NoCallback == [ show |-> NoKey, release |-> FALSE ]
ReleaseOnly == [ show |-> NoKey, release |-> TRUE ]
ShowThenRelease(key) == [ show |-> key, release |-> TRUE ]
Callbacks == { NoCallback, ReleaseOnly } \cup { ShowThenRelease(key) : key \in MenuKeys }

\* SlidingMenu after construction: panel closed, no category shown, no timer set
MenuClosed ==
    [ panel |-> FALSE, activeButton |-> NoKey, cats |-> {}, isAnimating |-> FALSE,
      timers |-> <<>>, guarded |-> FALSE ]

\* SlidingMenu.hideAllCategories
HideAllCategories(m) == [ m EXCEPT !.cats = {} ]

\* SlidingMenu.show
Show(m, key) == [ m EXCEPT !.cats = {key}, !.panel = TRUE, !.activeButton = key ]

\* the call of the callback cb of hide
RunCallback(m, cb) ==
    LET m1 == IF cb.show # NoKey THEN Show(m, cb.show) ELSE m
    IN  IF cb.release THEN [ m1 EXCEPT !.isAnimating = FALSE ] ELSE m1

\* hide that returns without calling the callback when the panel is closed
HideDropsCallback(m, cb) ==
    IF ~m.panel THEN m
    ELSE [ m EXCEPT !.panel = FALSE, !.activeButton = NoKey, !.timers = Append(@, cb) ]

\* SlidingMenu.hide(callback): at once when the panel is closed, else the panel
\* is closed and a timer of ANIMATION_DURATION is set
Hide(m, cb) ==
    IF ~m.panel THEN RunCallback(m, cb)
    ELSE [ m EXCEPT !.panel = FALSE, !.activeButton = NoKey, !.timers = Append(@, cb) ]

\* SlidingMenu.toggle for the button and category of key
Toggle(m, key) ==
    IF m.isAnimating THEN m
    ELSE IF m.activeButton = key
    THEN Hide([ m EXCEPT !.isAnimating = TRUE ], ReleaseOnly)
    ELSE Hide([ m EXCEPT !.isAnimating = TRUE ], ShowThenRelease(key))

\* the elements App, Workspace and SlidingMenu look up in the page
Buttons == { "button-tag-starts", "button-tag-operators", "button-tag-variables",
             "button-tag-events" }
Anchors == { "workspace", "sliding", "function-item", "clear-workspace" } \cup Buttons

\* Workspace.init on a page with the elements A: the listeners it installs
WorkspaceInit(A) ==
    IF "workspace" \notin A THEN {}
    ELSE { <<"workspace", "dragover">>, <<"workspace", "drop">>, <<"window", "resize">> }

\* SlidingMenu.setupDraggable: ondragstart of every .function-item of the page
SetupDraggable(A) ==
    IF "function-item" \in A THEN { <<"function-item", "dragstart">> } ELSE {}

\* SlidingMenu.observeChanges: the MutationObserver on the panel
ObserveChanges(A) ==
    IF "sliding" \notin A THEN {} ELSE { <<"sliding", "mutation">> }

\* SlidingMenu.init
MenuInit(A) ==
    SetupDraggable(A) \cup { <<btn, "click">> : btn \in Buttons \cap A } \cup ObserveChanges(A)

\* App.start: the listeners installed when start returns
AppStart(A) ==
    WorkspaceInit(A) \cup MenuInit(A)
      \cup (IF "clear-workspace" \in A THEN { <<"clear-workspace", "click">> } ELSE {})
      \cup { <<"document", "click">> }

\* the complete page once App.start has run
Loaded == [ anchors |-> Anchors, listeners |-> AppStart(Anchors), started |-> TRUE ]

Init ==
    /\ blocks = <<>>
    /\ kids = [ n \in {WsNode} |-> <<>> ]
    /\ el = <<>>
    /\ hi = {}
    /\ activeBlock = NoBlock
    /\ offset = [ x |-> 0, y |-> 0 ]
    /\ moveL = 0
    /\ upL = 0
    /\ ws \in WsSizes
    /\ placeholder = 1
    /\ page = Loaded
    /\ menu = MenuClosed

-----------------------------------------------------------------------------
(* Event handlers *)

\* an ondrop handler that appends the new block to a slot under the pointer when
\* there is one
DroppedIntoSlot(D, data, px, py, W) ==
    LET b == Len(D.b) + 1
        B1 == Append(D.b, [ name |-> data.name, category |-> data.category,
                            kind |-> CreateBlock(data) ])
        slots == { s \in Items(D.k) : HasSlot(D.b[s].kind) /\ Hit(SlotRect(D, s), px, py) }
        target == IF slots = {} THEN WsNode ELSE CHOOSE s \in slots : TRUE
        K1 == [ n \in DOMAIN D.k \cup {b} |->
                  IF n = b THEN <<>>
                  ELSE IF n = target THEN Append(D.k[target], b) ELSE D.k[n] ]
        D1 == [ b |-> B1, k |-> K1, e |-> Append(D.e, Render) ]
        x == Clamp(px - WsLeft - OffsetWidth(D1, b) \div 2, 0, W[1] - OffsetWidth(D1, b))
        y == Clamp(py - WsTop - OffsetHeight(D1, b) \div 2, 0, W[2] - OffsetHeight(D1, b))
        D2 == [ D1 EXCEPT !.e[b].left = x, !.e[b].top = y ]
    IN  [ D2 EXCEPT !.e = UpdateDataPercents(D2, W) ]

\* the ondrop handler of Workspace.setupDrop on document D: the document afterwards
Dropped(D, data, px, py, W) ==
    LET b == Len(D.b) + 1
        B1 == Append(D.b, [ name |-> data.name, category |-> data.category,
                            kind |-> CreateBlock(data) ])
        K1 == [ n \in DOMAIN D.k \cup {b} |->
                  IF n = b THEN <<>>
                  ELSE IF n = WsNode THEN Append(D.k[WsNode], b) ELSE D.k[n] ]
        D1 == [ b |-> B1, k |-> K1, e |-> Append(D.e, Render) ]
        x == Clamp(px - WsLeft - OffsetWidth(D1, b) \div 2, 0, W[1] - OffsetWidth(D1, b))
        y == Clamp(py - WsTop - OffsetHeight(D1, b) \div 2, 0, W[2] - OffsetHeight(D1, b))
        D2 == [ D1 EXCEPT !.e[b].left = x, !.e[b].top = y ]
    IN  [ D2 EXCEPT !.e = UpdateDataPercents(D2, W) ]

\* Workspace.setupDrop, ondrop: a menu payload is dropped at (px, py)
Drop(data, px, py) ==
    /\ Len(blocks) < MaxBlocks
    /\ LET D1 == Dropped(Doc, data, px, py, ws)
       IN  /\ blocks' = D1.b
           /\ kids' = D1.k
           /\ el' = D1.e
           /\ placeholder' = IF placeholder > 0 THEN placeholder - 1 ELSE 0
    /\ UNCHANGED <<hi, activeBlock, offset, moveL, upL, ws, page, menu>>

\* what a property read gives for a field the parsed object does not have
Undefined == "undefined"

\* the texts a drop can carry as text/plain, by what they spell: nothing (the
\* empty string), text that is not JSON, the JSON null, a JSON number, or a JSON
\* object whose fields name and category are present or absent (Undefined)
Texts ==
    { [ spells |-> w, name |-> Undefined, category |-> Undefined ] :
        w \in {"nothing", "garbage", "null", "number"} }
    \cup [ spells : {"object"},
           name : {Undefined, StartName, "X"},
           category : {Undefined} \cup Categories ]

\* the text is JSON.stringify of an item of the menu: an object with a name and
\* one of the four categories
WellFormed(t) ==
    t.spells = "object" /\ t.name # Undefined /\ t.category \in Categories

\* JSON.parse(json): a SyntaxError for text that is not JSON, else the value
JsonParse(t) ==
    CASE t.spells = "garbage" -> [ tag |-> "SyntaxError" ]
      [] t.spells = "null" -> [ tag |-> "null" ]
      [] t.spells = "number" -> [ tag |-> "number" ]
      [] t.spells = "object" -> [ tag |-> "object", name |-> t.name, category |-> t.category ]

\* data.name / data.category as createBlock and render read them: a TypeError on
\* null, undefined on a number and on a missing field
Prop(v, key) ==
    CASE v.tag = "null" -> "TypeError"
      [] v.tag = "number" -> Undefined
      [] v.tag = "object" -> IF key = "name" THEN v.name ELSE v.category

\* Workspace.setupDrop, ondrop with the text t at (px, py): the handler returns on
\* an empty text; an exception of JSON.parse or of createBlock leaves the handler
\* before anything is changed; every other value goes through createBlock
DropPayload(t, px, py) ==
    IF t.spells = "nothing" THEN UNCHANGED vars
    ELSE IF JsonParse(t).tag = "SyntaxError" THEN UNCHANGED vars
    ELSE IF Prop(JsonParse(t), "name") = "TypeError" THEN UNCHANGED vars
    ELSE Drop([ name |-> Prop(JsonParse(t), "name"),
                category |-> Prop(JsonParse(t), "category") ], px, py)

\* the blocks no reference can reach any more: outside the document and outside
\* the subtree of the active block
Garbage(K, A) ==
    { b \in DOMAIN K \ {WsNode} : ~InDoc(K, b) /\ ~(A # NoBlock /\ Contains(K, A, b)) }

\* the document r = [k, e, h] once the style, classes and dataset of the
\* unreachable elements are forgotten (nothing can observe them any more)
Collect(r, A) ==
    [ k |-> r.k,
      e |-> [ b \in DOMAIN r.e |-> IF b \in Garbage(r.k, A) THEN Render ELSE r.e[b] ],
      h |-> r.h \ Garbage(r.k, A) ]

\* the handler leaves the document r = [k, e, h]
Install(r) ==
    /\ kids' = r.k
    /\ el' = r.e
    /\ hi' = r.h

\* the detachment of dragStart that keeps client coordinates, not translated into
\* the workspace's frame
DetachToRootClientCoords(D, b) ==
    LET rect == Rect(D, b)
    IN  [ k |-> AppendChild(D.k, WsNode, b),
          e |-> [ D.e EXCEPT ![b].position = "absolute",
                             ![b].left = rect.left,
                             ![b].top = rect.top ] ]

\* the detachment of dragStart that takes the block out of its slot and does not
\* append it to the workspace root
DetachToRootDropsBlock(D, b) ==
    LET rect == Rect(D, b)
    IN  [ k |-> Detach(D.k, b),
          e |-> [ D.e EXCEPT ![b].position = "absolute",
                             ![b].left = rect.left - WsLeft,
                             ![b].top = rect.top - WsTop ] ]

\* Workspace.dragStart, the block is taken out of its slot: the element goes back to
\* the workspace root at its on-screen box translated into workspace coordinates;
\* [k |-> kids, e |-> el] afterwards
DetachToRoot(D, b) ==
    LET rect == Rect(D, b)
    IN  [ k |-> AppendChild(D.k, WsNode, b),
          e |-> [ D.e EXCEPT ![b].position = "absolute",
                             ![b].left = rect.left - WsLeft,
                             ![b].top = rect.top - WsTop ] ]

\* dragStart, the class dragging and the z-index of the block picked up
PickedUp(d, b, H) ==
    [ k |-> d.k, e |-> [ d.e EXCEPT ![b].dragging = TRUE, ![b].zIndex = ZDrag ], h |-> H ]

\* Workspace.dragStart of block b for a mousedown at (clientX, clientY), past the
\* first test; rect is b's box
DragStartAt(b, rect, clientX, clientY) ==
    /\ Install(Collect(PickedUp(IF Parent(kids, b) # WsNode THEN DetachToRoot(Doc, b)
                                ELSE [ k |-> kids, e |-> el ], b, hi), b))
    /\ activeBlock' = b
    /\ offset' = [ x |-> clientX - rect.left, y |-> clientY - rect.top ]

\* the first test of dragStart that returns only in the handler of the block the
\* removal control belongs to
ReturnsForOwnControl(onRemove, b, c) == onRemove /\ c = b

\* dragStart(e, c), the first test, e.target.closest('.remove-item'), for a
\* target inside block b that is (onRemove) its removal control or is not
ReturnsAtOnce(onRemove, b, c) == onRemove

\* the event is not stopped: the handlers of all the blocks on the path run, and
\* the outermost, which runs last, leaves its block as the active one
StopsAtOutermost(K, handlers) ==
    CHOOSE c \in handlers : \A d \in handlers : Contains(K, c, d)

\* e.stopPropagation() in dragStart: of the handlers on the bubbling path, only
\* the innermost, which runs first, handles the event
StopsAt(K, handlers) ==
    CHOOSE c \in handlers : \A d \in handlers : Contains(K, d, c)

\* BaseBlock onmousedown -> Workspace.dragStart: mousedown inside block b at the
\* grab point g of its box, or (onRemove) on its removal control. The event
\* bubbles from b through the blocks that contain it; the handler of each calls
\* dragStart, and the first dragStart that does not return at once stops the
\* propagation and picks its block up
DragStart(b, g, onRemove) ==
    /\ b \in Items(kids)
    /\ LET clientX == Rect(Doc, b).left + g[1]
           clientY == Rect(Doc, b).top + g[2]
           handlers == { c \in Items(kids) :
                           Contains(kids, c, b) /\ ~ReturnsAtOnce(onRemove, b, c) }
       IN  IF handlers = {}
           THEN UNCHANGED vars
           ELSE LET c == StopsAt(kids, handlers)
                IN  /\ onRemove \/ ElementsFromPoint(Doc, clientX, clientY) # <<>>
                    /\ onRemove \/ Head(ElementsFromPoint(Doc, clientX, clientY)).b = b
                    /\ DragStartAt(c, Rect(Doc, c), clientX, clientY)
                    /\ moveL' = moveL + 1
                    /\ upL' = upL + 1
                    /\ UNCHANGED <<blocks, ws, placeholder, page, menu>>

\* document mousemove at (px, py): every registered onMove runs Workspace.dragging
MouseMove(px, py) ==
    /\ moveL > 0
    /\ LET r == DraggingAll(Doc, hi, activeBlock, offset, ws, px, py, moveL)
       IN  /\ el' = r.e
           /\ hi' = r.h
    /\ UNCHANGED <<blocks, kids, activeBlock, offset, moveL, upL, ws, placeholder, page, menu>>

\* mouseup whose dragEnd returns as soon as it finds no slot, before the clean-up
MouseUpReturnsWithoutSlot ==
    /\ upL > 0
    /\ IF activeBlock = NoBlock
       THEN UNCHANGED <<kids, el, hi, activeBlock>>
       ELSE IF FindValidSlot(Doc, activeBlock, ProbeOf(Doc, activeBlock)[1],
                             ProbeOf(Doc, activeBlock)[2]) = NoBlock
       THEN UNCHANGED <<kids, el, hi, activeBlock>>
       ELSE /\ Install(Collect(DragEnd(Doc, hi, activeBlock, ws), NoBlock))
            /\ activeBlock' = NoBlock
    /\ upL' = 0
    /\ UNCHANGED <<blocks, offset, moveL, ws, placeholder, page, menu>>

\* document mouseup: every pending onUp runs Workspace.dragEnd once and is removed;
\* all but the first find no active block and return
MouseUp ==
    /\ upL > 0
    /\ IF activeBlock = NoBlock
       THEN UNCHANGED <<kids, el, hi>>
       ELSE Install(Collect(DragEnd(Doc, hi, activeBlock, ws), NoBlock))
    /\ activeBlock' = NoBlock
    /\ upL' = 0
    /\ UNCHANGED <<blocks, offset, moveL, ws, placeholder, page, menu>>

\* destroy that also discards the drag session of the block removed
RemoveEndsDrag(b) ==
    /\ b \in Items(kids)
    /\ Install(Collect([ k |-> Detach(kids, b), e |-> el, h |-> hi ],
                       IF activeBlock = b THEN NoBlock ELSE activeBlock))
    /\ placeholder' = CheckEmpty(Detach(kids, b), placeholder)
    /\ activeBlock' = IF activeBlock = b THEN NoBlock ELSE activeBlock
    /\ UNCHANGED <<blocks, offset, moveL, upL, ws, page, menu>>

\* destroy that takes the element out and leaves the blocks nested in it in its
\* place
RemoveLiftsChildren(b) ==
    /\ b \in Items(kids)
    /\ LET p == Parent(kids, b)
           i == IndexOf(kids[p], b)
           K == [ kids EXCEPT ![p] = SubSeq(@, 1, i - 1) \o kids[b] \o SubSeq(@, i + 1, Len(@)),
                              ![b] = <<>> ]
       IN  /\ Install(Collect([ k |-> K, e |-> el, h |-> hi ], activeBlock))
           /\ placeholder' = CheckEmpty(K, placeholder)
    /\ UNCHANGED <<blocks, activeBlock, offset, moveL, upL, ws, page, menu>>

\* click on the removal control of block b: BaseBlock.destroy
Remove(b) ==
    /\ b \in Items(kids)
    /\ Install(Collect([ k |-> Detach(kids, b), e |-> el, h |-> hi ], activeBlock))
    /\ placeholder' = CheckEmpty(Detach(kids, b), placeholder)
    /\ UNCHANGED <<blocks, activeBlock, offset, moveL, upL, ws, page, menu>>

RECURSIVE DetachAll(_, _)
\* forEach(el => el.remove()) over the items S
DetachAll(K, S) ==
    IF S = {} THEN K
    ELSE LET b == CHOOSE b \in S : TRUE IN DetachAll(Detach(K, b), S \ {b})

\* click on #clear-workspace: Workspace.clear
Clear ==
    /\ Install(Collect([ k |-> DetachAll(kids, Items(kids)), e |-> el, h |-> hi ],
                       activeBlock))
    /\ placeholder' = CheckEmpty(DetachAll(kids, Items(kids)), placeholder)
    /\ UNCHANGED <<blocks, activeBlock, offset, moveL, upL, ws, page, menu>>

\* DOMContentLoaded: App.start
Start ==
    /\ ~page.started
    /\ page' = [ page EXCEPT !.listeners = AppStart(page.anchors), !.started = TRUE ]
    /\ placeholder' = IF "workspace" \in page.anchors THEN CheckEmpty(kids, placeholder)
                      ELSE placeholder
    /\ UNCHANGED <<blocks, kids, el, hi, activeBlock, offset, moveL, upL, ws, menu>>

\* click on the category button of key: the listener of setupButtonListeners
ButtonClick(key) ==
    /\ Len(menu.timers) < MaxTimers
    /\ menu' = Toggle(menu, key)
    /\ UNCHANGED <<blocks, kids, el, hi, activeBlock, offset, moveL, upL, ws, placeholder, page>>

\* click outside the buttons and the panel: the document listener of
\* App.setupGlobalEvents calls menu.hide() without a callback
DocumentClick ==
    /\ Len(menu.timers) < MaxTimers
    /\ menu' = Hide(menu, NoCallback)
    /\ UNCHANGED <<blocks, kids, el, hi, activeBlock, offset, moveL, upL, ws, placeholder, page>>

\* click outside the menu in src/js/index.js: menu.handleDocumentClick
HandleDocumentClick ==
    /\ Len(menu.timers) < MaxTimers
    /\ menu' = IF menu.isAnimating THEN menu
               ELSE Hide([ menu EXCEPT !.isAnimating = TRUE ], ReleaseOnly)
    /\ UNCHANGED <<blocks, kids, el, hi, activeBlock, offset, moveL, upL, ws, placeholder, page>>

\* the oldest timer set by hide expires: hideAllCategories, then the callback
TimerFires ==
    /\ menu.timers # <<>>
    /\ menu' = RunCallback(HideAllCategories([ menu EXCEPT !.timers = Tail(@) ]),
                           Head(menu.timers))
    /\ UNCHANGED <<blocks, kids, el, hi, activeBlock, offset, moveL, upL, ws, placeholder, page>>

\* window resize to the size W: Workspace.updatePositions
Resize(W) ==
    /\ W # ws
    /\ ws' = W
    /\ el' = UpdatePositions(Doc, W)
    /\ UNCHANGED <<blocks, kids, hi, activeBlock, offset, moveL, upL, placeholder, page, menu>>

Next ==
    \/ \E data \in Menu, p \in DropPoints : Drop(data, p[1], p[2])
    \/ /\ moveL < MaxListeners
       /\ \E b \in Ids, g \in GrabPoints, onRemove \in BOOLEAN : DragStart(b, g, onRemove)
    \/ \E p \in MovePoints : MouseMove(p[1], p[2])
    \/ MouseUp
    \/ \E b \in Ids : Remove(b)
    \/ Clear
    \/ \E W \in WsSizes : Resize(W)

Spec == Init /\ [][Next]_vars

\* the same program when the pointer-up of every drag eventually arrives: weak
\* fairness of the step that runs the mouseup listeners registered on the
\* document; MouseUp is the only step of Next that takes upL to 0
SpecLive == Spec /\ WF_upL(upL > 0 /\ upL' = 0)

-----------------------------------------------------------------------------
(* Nesting scenario: three blocks have been dropped from the menu, then the *)
(* user drags them with one pointer.                                        *)

NestPayloads == << [name |-> "X", category |-> "operator"],
                   [name |-> "X", category |-> "starts"],
                   [name |-> "X", category |-> "operator"],
                   [name |-> "X", category |-> "event"] >>

RECURSIVE DroppedAll(_, _, _)
DroppedAll(D, s, W) ==
    IF s = <<>> THEN D
    ELSE LET p == CHOOSE p \in DropPoints : TRUE
         IN  DroppedAll(Dropped(D, Head(s), p[1], p[2], W), Tail(s), W)

InitNest ==
    /\ ws \in WsSizes
    /\ LET D == DroppedAll([ b |-> <<>>, k |-> [ n \in {WsNode} |-> <<>> ], e |-> <<>> ],
                           NestPayloads, ws)
       IN  blocks = D.b /\ kids = D.k /\ el = D.e
    /\ hi = {}
    /\ activeBlock = NoBlock
    /\ offset = [ x |-> 0, y |-> 0 ]
    /\ moveL = 0
    /\ upL = 0
    /\ placeholder = 0
    /\ page = Loaded
    /\ menu = MenuClosed

NextNest ==
    \/ /\ moveL < MaxDrags
       /\ activeBlock = NoBlock
       /\ \E b \in Ids, g \in GrabPoints : DragStart(b, g, FALSE)
    \/ \E p \in MovePoints : MouseMove(p[1], p[2])
    \/ MouseUp
    \/ \E W \in WsSizes : Resize(W)

SpecNest == InitNest /\ [][NextNest]_vars

-----------------------------------------------------------------------------
(* Removal scenario: the same three blocks are dragged with one pointer, and *)
(* blocks are removed with their removal controls or all at once.            *)

NextRemove ==
    \/ /\ moveL < MaxDrags
       /\ activeBlock = NoBlock
       /\ \E b \in Ids, g \in GrabPoints : DragStart(b, g, FALSE)
    \/ \E p \in MovePoints : MouseMove(p[1], p[2])
    \/ MouseUp
    \/ \E b \in Ids : Remove(b)
    \/ Clear

SpecRemove == InitNest /\ [][NextRemove]_vars

-----------------------------------------------------------------------------
(* Ordered insertion scenario: a container, a simple block and two more      *)
(* containers have been dropped side by side in the 800 x 600 workspace; the  *)
(* user then drags them, with one pointer, over the first container's slot    *)
(* and resizes the window.                                                    *)

\* the menu drops that precede the scenario: payload and pointer position
InsertDrops == << [ data |-> [name |-> "X", category |-> "operator"], at |-> <<104, 384>> ],
                  [ data |-> [name |-> "X", category |-> "variable"], at |-> <<408, 156>> ],
                  [ data |-> [name |-> "X", category |-> "operator"], at |-> <<424, 408>> ],
                  [ data |-> [name |-> "X", category |-> "starts"], at |-> <<664, 84>> ] >>

\* pointer positions of the mousemove events of the scenario
InsertPoints == { <<24, 312>>, <<24, 456>> }

RECURSIVE DroppedEach(_, _, _)
\* the document after the drops s, one after the other
DroppedEach(D, s, W) ==
    IF s = <<>> THEN D
    ELSE DroppedEach(Dropped(D, Head(s).data, Head(s).at[1], Head(s).at[2], W), Tail(s), W)

InitInsert ==
    /\ ws = <<800, 600>>
    /\ LET D == DroppedEach([ b |-> <<>>, k |-> [ n \in {WsNode} |-> <<>> ], e |-> <<>> ],
                            InsertDrops, ws)
       IN  blocks = D.b /\ kids = D.k /\ el = D.e
    /\ hi = {}
    /\ activeBlock = NoBlock
    /\ offset = [ x |-> 0, y |-> 0 ]
    /\ moveL = 0
    /\ upL = 0
    /\ placeholder = 0
    /\ page = Loaded
    /\ menu = MenuClosed

NextInsert ==
    \/ /\ moveL < MaxDrags
       /\ activeBlock = NoBlock
       /\ \E b \in Ids, g \in GrabPoints : DragStart(b, g, FALSE)
    \/ \E p \in InsertPoints : MouseMove(p[1], p[2])
    \/ MouseUp
    \/ \E W \in WsSizes : Resize(W)

SpecInsert == InitInsert /\ [][NextInsert]_vars

-----------------------------------------------------------------------------
(* Resize scenario: blocks are dropped into the 800 x 600 workspace and      *)
(* dragged, and the window is resized between 800 x 600 and 400 x 300.        *)

ResizeSizes == { <<800, 600>>, <<400, 300>> }
\* pointer positions of the menu drops of the scenario
ResizeDropPoints == { <<304, 384>> }

InitResize ==
    /\ Init
    /\ ws = <<800, 600>>

NextResize ==
    \/ \E data \in Menu, p \in ResizeDropPoints : Drop(data, p[1], p[2])
    \/ /\ moveL < MaxListeners
       /\ activeBlock = NoBlock
       /\ \E b \in Ids, g \in GrabPoints : DragStart(b, g, FALSE)
    \/ \E p \in MovePoints : MouseMove(p[1], p[2])
    \/ MouseUp
    \/ \E W \in ResizeSizes : Resize(W)

SpecResize == InitResize /\ [][NextResize]_vars

-----------------------------------------------------------------------------
(* Block factory: every payload the menu can serialise is dropped *)

NextFactory == \E data \in AllSpecs, p \in DropPoints : Drop(data, p[1], p[2])

SpecFactory == Init /\ [][NextFactory]_vars

-----------------------------------------------------------------------------
(* Page load: App is constructed on a page that holds any of the elements it *)
(* looks up, then DOMContentLoaded runs App.start.                           *)

InitStart ==
    /\ blocks = <<>>
    /\ kids = [ n \in {WsNode} |-> <<>> ]
    /\ el = <<>>
    /\ hi = {}
    /\ activeBlock = NoBlock
    /\ offset = [ x |-> 0, y |-> 0 ]
    /\ moveL = 0
    /\ upL = 0
    /\ ws \in WsSizes
    /\ placeholder = 0
    /\ \E A \in SUBSET Anchors : page = [ anchors |-> A, listeners |-> {}, started |-> FALSE ]
    /\ menu = MenuClosed

NextStart == Start

SpecStart == InitStart /\ [][NextStart]_vars

-----------------------------------------------------------------------------
(* Timed menu of src/js/index.ts: category buttons are clicked, the user     *)
(* clicks outside the menu, and the timers of the hide animation expire in   *)
(* the order they were set (all have the same duration).                     *)

NextMenu ==
    \/ \E key \in MenuKeys : ButtonClick(key)
    \/ DocumentClick
    \/ TimerFires

SpecMenu == Init /\ [][NextMenu]_vars

\* the timed menus of the repository: that of src/js/index.ts, and that of
\* src/js/index.js and src/unnamed/part_000, whose outside click is guarded by
\* isAnimating (menu.guarded)
InitMenuVariants ==
    /\ blocks = <<>>
    /\ kids = [ n \in {WsNode} |-> <<>> ]
    /\ el = <<>>
    /\ hi = {}
    /\ activeBlock = NoBlock
    /\ offset = [ x |-> 0, y |-> 0 ]
    /\ moveL = 0
    /\ upL = 0
    /\ ws \in WsSizes
    /\ placeholder = 1
    /\ page = Loaded
    /\ \E g \in BOOLEAN : menu = [ MenuClosed EXCEPT !.guarded = g ]

NextMenuVariants ==
    \/ \E key \in MenuKeys : ButtonClick(key)
    \/ ~menu.guarded /\ DocumentClick
    \/ menu.guarded /\ HandleDocumentClick
    \/ TimerFires

\* every timer that has been set eventually expires
SpecMenuVariants == InitMenuVariants /\ [][NextMenuVariants]_vars /\ WF_vars(TimerFires)

-----------------------------------------------------------------------------
(* Drop payloads: any text is dropped on the workspace *)

NextPayload == \E t \in Texts, p \in DropPoints : DropPayload(t, p[1], p[2])

SpecPayload == Init /\ [][NextPayload]_vars

-----------------------------------------------------------------------------
(* Sanity of the model *)

TypeOK ==
    /\ DOMAIN kids = {WsNode} \cup Ids
    /\ DOMAIN el = Ids
    /\ activeBlock \in {NoBlock} \cup Ids
    /\ hi \subseteq Ids
    /\ moveL \in 0..Max(MaxListeners, MaxDrags) /\ upL \in 0..moveL
    /\ ws \in WsSizes \cup ResizeSizes
    /\ \A b \in Ids : blocks[b].kind \in Kinds
    /\ page.anchors \subseteq Anchors /\ page.started \in BOOLEAN
    /\ page.listeners \subseteq AppStart(Anchors)
    /\ menu.panel \in BOOLEAN /\ menu.isAnimating \in BOOLEAN /\ menu.guarded \in BOOLEAN
    /\ menu.activeButton \in MenuKeys \cup {NoKey} /\ menu.cats \subseteq MenuKeys
    /\ \A i \in DOMAIN menu.timers : menu.timers[i] \in Callbacks

\* pixel positions and percentages stay whole numbers in this model
Integral ==
    \A b \in Items(kids) :
        Parent(kids, b) = WsNode =>
            /\ (el[b].leftPercent * ws[1]) % 100 = 0
            /\ (el[b].topPercent * ws[2]) % 100 = 0
            /\ (activeBlock = NoBlock =>
                    /\ (el[b].left * 100) % ws[1] = 0
                    /\ (el[b].top * 100) % ws[2] = 0)

-----------------------------------------------------------------------------
(* Probe points used to question findValidSlot in a state: the pointer positions, *)
(* the drop probe of every item, and a corner of every slot                        *)

Probes(D) ==
    MovePoints
    \cup { ProbeOf(D, s) : s \in Items(D.k) }
    \cup { << SlotRect(D, s).left, SlotRect(D, s).top >> :
             s \in { i \in Items(D.k) : HasSlot(D.b[i].kind) } }

\* some slot of the subtree of block a, other than a's own, lies under the point p
OverNestedSlot(a, p) ==
    \E s \in Subtree(kids, a) \ {a} :
        HasSlot(blocks[s].kind) /\ Hit(SlotRect(Doc, s), p[1], p[2])

-----------------------------------------------------------------------------
(* C1: after any sequence of drops, drags, removals, clears and resizes the  *)
(* nesting relation is a forest: every block has at most one parent, occurs  *)
(* once among its siblings, and is never its own ancestor.                   *)
NestingIsForest ==
    \A b \in Ids :
        /\ b \notin Anc(kids, b)
        /\ Cardinality({ p \in DOMAIN kids : b \in Range(kids[p]) }) <= 1
        /\ \A p \in DOMAIN kids :
               Cardinality({ i \in DOMAIN kids[p] : kids[p][i] = b }) <= 1

\* a container is being dragged and its drop probe lies over the slot of a block
\* nested in it: the release that would close a cycle
DraggedOverOwnChild ==
    /\ activeBlock # NoBlock /\ upL > 0
    /\ InDoc(kids, activeBlock)
    /\ OverNestedSlot(activeBlock, ProbeOf(Doc, activeBlock))

(* C2: the controller is Idle or Dragging exactly one block, and a block is  *)
(* active only after a dragStart whose mouseup, which runs dragEnd, is still *)
(* pending.                                                                  *)
OneDragSession ==
    /\ activeBlock \in {NoBlock} \cup Ids
    /\ activeBlock # NoBlock => upL > 0 /\ moveL > 0

\* a second mousedown arrived while a drag was live: still one active block
SecondMouseDownWhileDragging ==
    activeBlock # NoBlock /\ upL = 2

(* C3: a RootBlock is never nested: it is a direct, absolutely positioned   *)
(* child of the workspace (or removed), and while it is the dragged block    *)
(* findValidSlot returns nothing for every probe point.                      *)
RootNeverNested ==
    \A b \in Ids :
        blocks[b].kind = "Root" =>
            /\ Parent(kids, b) \in {WsNode, NoParent}
            /\ el[b].position = "absolute"
            /\ activeBlock = b =>
                   \A p \in Probes(Doc) : FindValidSlot(Doc, b, p[1], p[2]) = NoBlock

\* a RootBlock is being dragged and its drop probe lies in the slot of another block
RootDraggedOverSlot ==
    /\ activeBlock # NoBlock /\ upL > 0
    /\ blocks[activeBlock].kind = "Root"
    /\ \E s \in Items(kids) \ {activeBlock} :
           /\ HasSlot(blocks[s].kind)
           /\ Hit(SlotRect(Doc, s), ProbeOf(Doc, activeBlock)[1], ProbeOf(Doc, activeBlock)[2])

(* C4: while a block is dragged, findValidSlot never returns a slot of the  *)
(* dragged block's own subtree (its own slot, or the slot of a block nested  *)
(* in it at any depth), whatever the probe point.                            *)
NoSlotInOwnSubtree ==
    activeBlock # NoBlock =>
        \A p \in Probes(Doc) :
            FindValidSlot(Doc, activeBlock, p[1], p[2]) \notin Subtree(kids, activeBlock)

\* the topmost element under a probe point is the slot of a block nested two
\* levels or more below the dragged block
ProbeOverDeepOwnSlot ==
    /\ activeBlock # NoBlock
    /\ \E p \in Probes(Doc), s \in Subtree(kids, activeBlock) :
           /\ Parent(kids, s) \in Subtree(kids, activeBlock) \ {activeBlock}
           /\ ElementsFromPoint(Doc, p[1], p[2]) # <<>>
           /\ Head(ElementsFromPoint(Doc, p[1], p[2])) = [ t |-> "slot", b |-> s ]

(* C5: the capability predicates match the table for every class and every  *)
(* incoming category: canAccept is true for Root and Container and false for *)
(* Simple; isMovableToSlot is false for Root, true for Container and Simple. *)
CapabilityTable ==
    \A b \in Ids, c \in Categories :
        /\ CanAccept(blocks[b].kind, c) = (blocks[b].kind \in {"Root", "Container"})
        /\ IsMovableToSlot(blocks[b].kind) = (blocks[b].kind # "Root")

\* a RootBlock and a SimpleBlock have been created
RootAndSimpleCreated ==
    \E a, b \in Ids : blocks[a].kind = "Root" /\ blocks[b].kind = "Simple"

(* C6: no block is ever nested inside a SimpleBlock: the parent of every    *)
(* nested block is a RootBlock or a ContainerBlock, and findValidSlot never  *)
(* resolves to a SimpleBlock, whatever the probe point.                      *)
NothingNestedInSimple ==
    /\ \A b \in Ids :
           Parent(kids, b) \in Ids => blocks[Parent(kids, b)].kind \in {"Root", "Container"}
    /\ activeBlock # NoBlock =>
           \A p \in Probes(Doc) :
               LET s == FindValidSlot(Doc, activeBlock, p[1], p[2])
               IN  s # NoBlock => blocks[s].kind # "Simple"

\* a block that may be nested is dragged, another SimpleBlock lies under its drop
\* probe, and the probe resolves to no target
DraggedOverSimple ==
    /\ activeBlock # NoBlock /\ upL > 0
    /\ IsMovableToSlot(blocks[activeBlock].kind)
    /\ \E s \in Items(kids) \ {activeBlock} :
           /\ blocks[s].kind = "Simple"
           /\ Hit(Rect(Doc, s), ProbeOf(Doc, activeBlock)[1], ProbeOf(Doc, activeBlock)[2])
    /\ FindValidSlot(Doc, activeBlock, ProbeOf(Doc, activeBlock)[1],
                     ProbeOf(Doc, activeBlock)[2]) = NoBlock

(* C7: createBlock is a total classification checked in order: the reserved *)
(* start name gives a RootBlock whatever the category; otherwise category    *)
(* starts or operator gives a ContainerBlock; otherwise a SimpleBlock.       *)
CreateBlockTable ==
    /\ \A d \in AllSpecs : CreateBlock(d) \in Kinds
    /\ \A b \in Ids :
           blocks[b].kind =
               IF blocks[b].name = StartName THEN "Root"
               ELSE IF blocks[b].category \in {"starts", "operator"} THEN "Container"
               ELSE "Simple"

\* a payload with the start name and a category that alone would give a
\* SimpleBlock has been made a RootBlock
StartNameBeatsCategory ==
    \E b \in Ids :
        /\ blocks[b].name = StartName
        /\ blocks[b].category \in {"variable", "event"}
        /\ blocks[b].kind = "Root"

\* the active block lies inside the workspace, or at 0 along an axis on which it
\* does not fit
ActiveInside ==
    LET w == OffsetWidth(Doc, activeBlock)
        h == OffsetHeight(Doc, activeBlock)
        x == el[activeBlock].left
        y == el[activeBlock].top
    IN  /\ IF w <= ws[1] THEN 0 <= x /\ x <= ws[1] - w ELSE x = 0
        /\ IF h <= ws[2] THEN 0 <= y /\ y <= ws[2] - h ELSE y = 0

(* C8: after every mousemove handled during a drag, whatever the pointer    *)
(* position, the active block's top-left satisfies 0 <= x <= W - w and       *)
(* 0 <= y <= H - h; along an axis on which the block is larger than the      *)
(* workspace the coordinate is exactly 0.                                    *)
MoveKeepsBlockInside ==
    [][ (activeBlock # NoBlock /\ \E p \in MovePoints : MouseMove(p[1], p[2]))
            => ActiveInside' ]_vars

\* a dragged block taller than the workspace is pinned to the top edge and pushed
\* against the right edge
OversizeBlockPinned ==
    /\ activeBlock # NoBlock
    /\ InDoc(kids, activeBlock)
    /\ OffsetHeight(Doc, activeBlock) > ws[2]
    /\ el[activeBlock].top = 0
    /\ el[activeBlock].left = ws[1] - OffsetWidth(Doc, activeBlock)
    /\ el[activeBlock].left > 0

(* C9: after every dragEnd no document mousemove or mouseup listener        *)
(* installed by dragStart is left registered.                                *)
NoListenersAfterDragEnd ==
    [][ MouseUp => (moveL' = 0 /\ upL' = 0) ]_vars

(* C10: dragStart of a nested block, at any depth, moves it to the workspace *)
(* root, absolutely positioned at its on-screen box minus the workspace      *)
(* origin, so its box on screen is the same before and after; and a release  *)
(* that finds no target leaves the dragged block at the root where it is.    *)
DetachKeepsPlace ==
    [][ /\ \A b \in Ids, g \in GrabPoints :
             (Parent(kids, b) \in Ids /\ DragStart(b, g, FALSE)) =>
                 /\ Parent(kids', b) = WsNode
                 /\ el'[b].position = "absolute"
                 /\ el'[b].left = Rect(Doc, b).left - WsLeft
                 /\ el'[b].top = Rect(Doc, b).top - WsTop
                 /\ Rect(Doc', b) = Rect(Doc, b)
        /\ ( /\ activeBlock # NoBlock
             /\ InDoc(kids, activeBlock)
             /\ FindValidSlot(Doc, activeBlock, ProbeOf(Doc, activeBlock)[1],
                              ProbeOf(Doc, activeBlock)[2]) = NoBlock
             /\ MouseUp ) =>
                 /\ Parent(kids', activeBlock) = WsNode
                 /\ el'[activeBlock].position = "absolute"
                 /\ el'[activeBlock].left = el[activeBlock].left
                 /\ el'[activeBlock].top = el[activeBlock].top ]_vars

\* the dragged block has just left the slot of a block that is itself nested: it
\* sits at the root exactly where the first place of that slot is on screen
DetachedFromDepthTwo ==
    /\ activeBlock # NoBlock /\ upL = 1
    /\ Parent(kids, activeBlock) = WsNode
    /\ el[activeBlock].position = "absolute"
    /\ \E q \in Items(kids) :
           /\ Parent(kids, q) \in Ids
           /\ HasSlot(blocks[q].kind) /\ kids[q] = <<>>
           /\ el[activeBlock].left = SlotRect(Doc, q).left - WsLeft
           /\ el[activeBlock].top = SlotRect(Doc, q).top - WsTop

-----------------------------------------------------------------------------
\* the slot dragEnd would resolve in this state for the active block
DropTarget ==
    FindValidSlot(Doc, activeBlock, ProbeOf(Doc, activeBlock)[1], ProbeOf(Doc, activeBlock)[2])

\* the height of the probe line of dragEnd in this state
DropY == ProbeOf(Doc, activeBlock)[2]

(* C11: when dragEnd resolves a target slot, the active block becomes a      *)
(* direct child of exactly that slot, once, and its positioning is reset to  *)
(* relative with left and top zero.                                          *)
NestedIntoResolvedSlot ==
    [][ (activeBlock # NoBlock /\ DropTarget # NoBlock /\ MouseUp) =>
            /\ Parent(kids', activeBlock) = DropTarget
            /\ Cardinality({ i \in DOMAIN kids'[DropTarget] :
                               kids'[DropTarget][i] = activeBlock }) = 1
            /\ \A n \in DOMAIN kids' \ {DropTarget} : activeBlock \notin Range(kids'[n])
            /\ el'[activeBlock].position = "relative"
            /\ el'[activeBlock].left = 0
            /\ el'[activeBlock].top = 0 ]_vars

\* a drag has ended and left a block, grabbed at a non-zero position of the
\* workspace, nested in a slot with relative positioning and zero offsets
NestedAfterDragEnd ==
    /\ activeBlock = NoBlock /\ moveL > 0 /\ upL = 0
    /\ \E b \in Ids :
           /\ Parent(kids, b) \in Ids
           /\ el[b].position = "relative"
           /\ el[b].left = 0 /\ el[b].top = 0
           /\ el[b].leftPercent > 0

DragEndCleansUp ==
    [][ (activeBlock # NoBlock /\ MouseUp) =>
            /\ ~el'[activeBlock].dragging
            /\ hi' = {}
            /\ activeBlock' = NoBlock ]_vars

\* a block carrying the class dragging is about to be released while a slot is
\* highlighted and the release resolves no slot
ReleaseWithHighlightNoTarget ==
    /\ activeBlock # NoBlock /\ upL > 0
    /\ el[activeBlock].dragging
    /\ hi # {}
    /\ DropTarget = NoBlock

(* C14: in every reachable state at most one slot of the document carries   *)
(* the class drag-over: every onMove clears the class from all the slots of  *)
(* the document before it marks the one slot, if any, found at the pointer.  *)
AtMostOneHighlight ==
    Cardinality({ s \in hi : InDoc(kids, s) }) <= 1

\* two mousemove listeners are registered, so every event runs onMove twice, and
\* a slot of the document is highlighted
HighlightedByTwoListeners ==
    /\ activeBlock # NoBlock /\ moveL = 2
    /\ \E s \in hi : InDoc(kids, s)

\* the vertical centre of the box of block c, in client coordinates
Centre(D, c) == Rect(D, c).top + Rect(D, c).height \div 2

\* the children of a slot other than the dragged block
Others(slot) == SelectSeq(kids[slot], LAMBDA c : c # activeBlock)

\* block a stands immediately before block b in the sequence s
ImmediatelyBefore(s, a, b) ==
    \E i \in 1..(Len(s) - 1) : s[i] = a /\ s[i + 1] = b

(* C15: a drop whose probe height lies strictly between the vertical        *)
(* centres of two adjacent children A (above) and B (below) of the target    *)
(* slot inserts the block between A and B, the other children keeping their  *)
(* order.                                                                    *)
InsertedBetweenSiblings ==
    [][ (activeBlock # NoBlock /\ DropTarget # NoBlock /\ MouseUp) =>
            \A i \in 1..(Len(kids[DropTarget]) - 1) :
                (Centre(Doc, kids[DropTarget][i]) < DropY
                    /\ DropY < Centre(Doc, kids[DropTarget][i + 1])) =>
                    /\ ImmediatelyBefore(kids'[DropTarget], kids[DropTarget][i], activeBlock)
                    /\ ImmediatelyBefore(kids'[DropTarget], activeBlock,
                                         kids[DropTarget][i + 1])
                    /\ Without(kids'[DropTarget], activeBlock) = kids[DropTarget] ]_vars

\* the probe of the dragged block resolves a slot that holds two children or
\* more, and its height lies strictly between the centres of two neighbours
ProbeBetweenSiblings ==
    /\ activeBlock # NoBlock /\ upL > 0
    /\ DropTarget # NoBlock
    /\ \E i \in 1..(Len(kids[DropTarget]) - 1) :
           /\ Centre(Doc, kids[DropTarget][i]) < DropY
           /\ DropY < Centre(Doc, kids[DropTarget][i + 1])

\* among the children of the slot other than the dragged block, the one nearest
\* to the line y among those whose centre lies above it (NoBlock if none)
NearestAbove(slot, y) ==
    LET C == { c \in Range(Others(slot)) : Centre(Doc, c) < y }
    IN  IF C = {} THEN NoBlock
        ELSE CHOOSE c \in C : \A d \in C : y - Centre(Doc, c) <= y - Centre(Doc, d)

\* the same among the children whose centre lies below the line y
NearestBelow(slot, y) ==
    LET C == { c \in Range(Others(slot)) : Centre(Doc, c) > y }
    IN  IF C = {} THEN NoBlock
        ELSE CHOOSE c \in C : \A d \in C : Centre(Doc, c) - y <= Centre(Doc, d) - y

\* probe heights put to getInsertAfter in a state: the top, the centre and the
\* line just under the centre of every item, and the height dragEnd probes
ProbeHeights ==
    { Rect(Doc, c).top : c \in Items(kids) }
    \cup { Centre(Doc, c) : c \in Items(kids) }
    \cup { Centre(Doc, c) + 1 : c \in Items(kids) }
    \cup (IF activeBlock # NoBlock THEN {DropY} ELSE {})

\* the slots of the document
SlotsInDoc == { s \in Items(kids) : HasSlot(blocks[s].kind) }

(* C16, as stated: getInsertAfter(slot, y) returns, among the slot's direct *)
(* children other than the dragged block, the child minimizing               *)
(* |y - centerY| subject to centerY < y (midpoint above the probe line), and *)
(* the dragged block is inserted immediately before that child.              *)
InsertAfterIsNearestAbove ==
    [][ (activeBlock # NoBlock /\ MouseUp) =>
            /\ \A slot \in SlotsInDoc, y \in ProbeHeights :
                   GetInsertAfter(Doc, slot, y) = NearestAbove(slot, y)
            /\ (DropTarget # NoBlock /\ NearestAbove(DropTarget, DropY) # NoBlock) =>
                   ImmediatelyBefore(kids'[DropTarget], activeBlock,
                                     NearestAbove(DropTarget, DropY)) ]_vars

(* C16, amended: getInsertAfter(slot, y) returns, among the slot's direct   *)
(* children other than the dragged block, the child minimizing               *)
(* |y - centerY| subject to centerY > y (midpoint below the probe line);     *)
(* none if there is no such child; and the dragged block is inserted         *)
(* immediately before that child.                                            *)
InsertAfterIsNearestBelow ==
    [][ (activeBlock # NoBlock /\ MouseUp) =>
            /\ \A slot \in SlotsInDoc, y \in ProbeHeights :
                   GetInsertAfter(Doc, slot, y) = NearestBelow(slot, y)
            /\ (DropTarget # NoBlock /\ NearestBelow(DropTarget, DropY) # NoBlock) =>
                   ImmediatelyBefore(kids'[DropTarget], activeBlock,
                                     NearestBelow(DropTarget, DropY)) ]_vars

\* the probe resolves a slot with two children whose centres both lie below the
\* probe line: the nearer one, the first, is the one to insert before
ProbeAboveTwoChildren ==
    /\ activeBlock # NoBlock /\ upL > 0
    /\ DropTarget # NoBlock
    /\ Len(kids[DropTarget]) >= 2
    /\ \A c \in Range(kids[DropTarget]) : Centre(Doc, c) > DropY

(* C17: when getInsertAfter finds no child, which is when the slot is empty  *)
(* or the probe line lies at or below the centre of every child, the dragged *)
(* block is appended as the last child of the slot.                          *)
AppendedWhenNoneFound ==
    [][ (activeBlock # NoBlock /\ DropTarget # NoBlock /\ MouseUp) =>
            /\ (GetInsertAfter(Doc, DropTarget, DropY) = NoBlock)
                   = (\A c \in Range(kids[DropTarget]) : Centre(Doc, c) <= DropY)
            /\ GetInsertAfter(Doc, DropTarget, DropY) = NoBlock =>
                   kids'[DropTarget] = Append(kids[DropTarget], activeBlock) ]_vars

\* the probe resolves a slot that holds children, and lies below all their centres
ProbeBelowAllChildren ==
    /\ activeBlock # NoBlock /\ upL > 0
    /\ DropTarget # NoBlock
    /\ kids[DropTarget] # <<>>
    /\ \A c \in Range(kids[DropTarget]) : Centre(Doc, c) <= DropY

(* C18: on a resize the pixel position of every Free block is recomputed     *)
(* from its persisted percentages as left = leftPercent / 100 * newWidth and *)
(* top = topPercent / 100 * newHeight; a block at (25%, 50%) resized from    *)
(* 800 x 600 to 400 x 300 lands at pixel (100, 150).                         *)
ResizeRescalesFree ==
    [][ \A W \in ResizeSizes :
            Resize(W) =>
                \A b \in Items(kids) :
                    Parent(kids, b) = WsNode =>
                        /\ el'[b].left * 100 = el[b].leftPercent * W[1]
                        /\ el'[b].top * 100 = el[b].topPercent * W[2]
                        /\ ( /\ ws = <<800, 600>> /\ W = <<400, 300>>
                             /\ el[b].leftPercent = 25 /\ el[b].topPercent = 50 ) =>
                               (el'[b].left = 100 /\ el'[b].top = 150) ]_vars

\* a Free block whose percentages are (25, 50) stands at pixel (100, 150) in the
\* 400 x 300 workspace
QuarterHalfAfterShrink ==
    /\ ws = <<400, 300>>
    /\ \E b \in Items(kids) :
           /\ Parent(kids, b) = WsNode
           /\ el[b].leftPercent = 25 /\ el[b].topPercent = 50
           /\ el[b].left = 100 /\ el[b].top = 150

(* C19: in every reachable state the persisted leftPercent and topPercent of *)
(* every Free block lie in [0, 100], for any sequence of drops, drags        *)
(* (a nested block detached and released without a move included) and        *)
(* resizes.                                                                  *)
PercentsWithinRange ==
    \A b \in Items(kids) :
        Parent(kids, b) = WsNode =>
            /\ 0 <= el[b].leftPercent /\ el[b].leftPercent <= 100
            /\ 0 <= el[b].topPercent /\ el[b].topPercent <= 100

(* C20: a drop whose payload is malformed (empty, not parseable, or not a    *)
(* well-formed block spec) is a no-op: no block is created and the workspace *)
(* state (blocks, placements, placeholder) is unchanged.                     *)
MalformedDropIsNoOp ==
    [][ \A t \in Texts, p \in DropPoints :
            (~WellFormed(t) /\ DropPayload(t, p[1], p[2])) => UNCHANGED vars ]_vars

(* C21: the only transition from Dragging to Idle is the pointer-up          *)
(* (dragEnd): no move, resize, menu drop, remove, clear or pointer-down ends *)
(* or discards an active drag session; and, when a pointer-up eventually     *)
(* occurs, every drag eventually returns to Idle.                            *)
OnlyPointerUpEndsDrag ==
    /\ [][ (activeBlock # NoBlock /\ activeBlock' = NoBlock) => MouseUp ]_vars
    /\ (activeBlock # NoBlock) ~> (activeBlock = NoBlock)

\* the dragged block has been removed from the document and the drag session is
\* still live
RemovedWhileDragged ==
    /\ activeBlock # NoBlock /\ upL > 0
    /\ ~InDoc(kids, activeBlock)

(* C22: dragStart, onMove and dragEnd leave the set of placed block          *)
(* identities unchanged: a drag never creates, duplicates or destroys a      *)
(* block; the set shrinks only through a remove or a clear.                  *)
DragKeepsPlacedBlocks ==
    /\ [][ ((\E b \in Ids, g \in GrabPoints, r \in BOOLEAN : DragStart(b, g, r))
              \/ (\E p \in MovePoints : MouseMove(p[1], p[2]))
              \/ MouseUp)
            => (Items(kids') = Items(kids) /\ blocks' = blocks) ]_vars
    /\ [][ (Items(kids) \ Items(kids') # {})
            => ((\E b \in Ids : Remove(b)) \/ Clear) ]_vars

\* a drag has ended in a slot and the owner of that slot is being dragged with
\* the block nested in it
DraggedWithNestedChild ==
    /\ activeBlock \in Items(kids) /\ el[activeBlock].dragging
    /\ kids[activeBlock] # <<>>
    /\ Items(kids) = Subtree(kids, activeBlock)

(* C23: removing a block removes it together with every block transitively   *)
(* nested in it, and leaves every block outside that subtree unchanged: its  *)
(* placement, its parent and the order of its siblings.                      *)
RemoveTakesSubtreeOnly ==
    [][ \A b \in Ids :
          Remove(b) =>
            /\ Items(kids') = Items(kids) \ Subtree(kids, b)
            /\ blocks' = blocks
            /\ \A c \in Items(kids) \ Subtree(kids, b) :
                   /\ Parent(kids', c) = Parent(kids, c)
                   /\ el'[c] = el[c]
            /\ \A n \in (Items(kids) \ Subtree(kids, b)) \cup {WsNode} :
                   kids'[n] = SelectSeq(kids[n], LAMBDA x : x # b) ]_vars

\* a block has been removed with a block nested in it that itself holds a
\* block, and other blocks stay in the workspace
RemovedWithNestedSubtree ==
    /\ Items(kids) # {}
    /\ \E b \in DOMAIN kids \ {WsNode} :
           /\ ~InDoc(kids, b) /\ Parent(kids, b) = NoParent
           /\ \E c \in Range(kids[b]) : kids[c] # <<>>

\* the listeners that belong to the workspace and to the menu
WorkspaceListeners == WorkspaceInit(Anchors)
MenuListeners == MenuInit(Anchors)

(* C24: when the workspace anchor or the menu container is absent at         *)
(* initialisation, App.start returns without an error, no listener of that   *)
(* component is installed, and the other component is still initialised.     *)
MissingAnchorSkipsInit ==
    page.started =>
        /\ "workspace" \notin page.anchors =>
               /\ page.listeners \cap WorkspaceListeners = {}
               /\ MenuInit(page.anchors) \subseteq page.listeners
        /\ "sliding" \notin page.anchors =>
               /\ page.listeners \cap MenuListeners = {}
               /\ WorkspaceInit(page.anchors) \subseteq page.listeners

\* the positions, in the topmost-first stack under (x, y), of the slots whose
\* owner accepts the category of block A and that lie outside A's subtree
Candidates(A, x, y) ==
    LET t == ElementsFromPoint(Doc, x, y)
    IN  { i \in DOMAIN t : /\ t[i].t = "slot"
                           /\ CanAccept(blocks[t[i].b].kind, blocks[A].category)
                           /\ t[i].b \notin Subtree(kids, A) }

\* the reference resolution of the drop target of block A at (x, y)
Resolved(A, x, y) ==
    IF A = NoBlock THEN NoBlock
    ELSE IF ~IsMovableToSlot(blocks[A].kind) THEN NoBlock
    ELSE IF Candidates(A, x, y) = {} THEN NoBlock
    ELSE LET i == CHOOSE i \in Candidates(A, x, y) : \A j \in Candidates(A, x, y) : i <= j
         IN  ElementsFromPoint(Doc, x, y)[i].b

(* C25: findValidSlot returns none when there is no active block or the      *)
(* active block is not movable to a slot; otherwise the first slot, topmost  *)
(* first under the probe point, whose owner accepts the dragged category and *)
(* which is not inside the dragged subtree; none when there is no such slot. *)
FindValidSlotIsReference ==
    \A A \in {NoBlock} \cup Items(kids), p \in Probes(Doc) :
        FindValidSlot(Doc, A, p[1], p[2]) = Resolved(A, p[1], p[2])

\* during a drag two admissible slots, one nested in the other, lie under one
\* probe point
TwoCandidatesUnderProbe ==
    /\ activeBlock \in Items(kids)
    /\ \E p \in Probes(Doc) :
           LET t == ElementsFromPoint(Doc, p[1], p[2])
           IN  \E i, j \in Candidates(activeBlock, p[1], p[2]) :
                   i < j /\ Parent(kids, t[i].b) = t[j].b

\* the slot resolved for the active block at the middle of its box, 10 px below
\* its top edge
ResolvedAtProbe ==
    LET box == Rect(Doc, activeBlock)
    IN  Resolved(activeBlock, box.left + box.width \div 2, box.top + 10)

(* C26: at dragEnd the drop target is resolved at the probe point (the       *)
(* horizontal centre of the active block's current box, 10 px below its top  *)
(* edge), never at the pointer: the block is nested into the slot resolved   *)
(* there, or stays where it is when none is, whatever slot the last onMove   *)
(* highlighted.                                                              *)
DropTargetResolvedAtProbe ==
    [][ (MouseUp /\ activeBlock # NoBlock /\ InDoc(kids, activeBlock))
          => Parent(kids', activeBlock) =
                IF ResolvedAtProbe = NoBlock THEN Parent(kids, activeBlock)
                ELSE ResolvedAtProbe ]_vars

\* a pointer-up is pending, the probe resolves a slot and the last onMove
\* highlighted another one
ProbeDisagreesWithHighlight ==
    /\ activeBlock \in Items(kids) /\ upL > 0
    /\ ResolvedAtProbe # NoBlock
    /\ ResolvedAtProbe \notin hi
    /\ \E s \in hi : InDoc(kids, s)

(* C27: a pointer-down on a block that arrives while a drag session is       *)
(* active, before the pointer-up of the first drag, is ignored: it replaces  *)
(* neither the active block nor the captured offset.                         *)
SecondPointerDownIgnored ==
    [][ (activeBlock # NoBlock
           /\ \E b \in Ids, g \in GrabPoints : DragStart(b, g, FALSE))
          => (activeBlock' = activeBlock /\ offset' = offset) ]_vars

(* C28: a pointer-down whose target is a block's removal control never       *)
(* starts a drag: the controller stays as it is, no listener is registered   *)
(* and no block is detached or marked dragging, also when the control        *)
(* belongs to a nested block whose ancestors have pointer-down handlers.     *)
RemovalControlNeverDrags ==
    [][ (\E b \in Ids, g \in GrabPoints : DragStart(b, g, TRUE))
          => /\ activeBlock' = activeBlock /\ offset' = offset
             /\ moveL' = moveL /\ upL' = upL
             /\ kids' = kids /\ el' = el /\ hi' = hi ]_vars

\* no drag is active and the removal control of a nested block can be pressed:
\* the mousedown bubbles to the handler of the block that holds it
IdleWithNestedControl ==
    /\ activeBlock = NoBlock /\ upL = 0
    /\ \E b \in Items(kids) : Parent(kids, b) \in Items(kids)

\* the style of element b without its pixel position
Unplaced(E, b) == [ E[b] EXCEPT !.left = 0, !.top = 0 ]

(* C29: onMove changes only the pixel position of the active block and the  *)
(* slot highlight: the captured offset, the active block, the nesting tree,  *)
(* the placements of all other blocks and all persisted percentages are      *)
(* unchanged; a pointer-move delivered while idle changes nothing, and while *)
(* idle no pointer-up listener is registered.                                *)
MoveChangesPositionAndHighlightOnly ==
    /\ [][ (\E p \in MovePoints : MouseMove(p[1], p[2]))
            => /\ offset' = offset /\ activeBlock' = activeBlock
               /\ kids' = kids /\ blocks' = blocks
               /\ \A b \in Ids \ {activeBlock} : el'[b] = el[b]
               /\ \A b \in Ids : Unplaced(el', b) = Unplaced(el, b)
               /\ (activeBlock = NoBlock => UNCHANGED vars) ]_vars
    /\ [](activeBlock = NoBlock => upL = 0)

\* onMove has moved the dragged block away from its persisted position over the
\* slot of another block, and a second block is placed
MovedOverSlotOfAnother ==
    /\ activeBlock \in Items(kids)
    /\ \E s \in hi : s # activeBlock /\ InDoc(kids, s)
    /\ el[activeBlock].leftPercent # Unset
    /\ el[activeBlock].left * 100 # el[activeBlock].leftPercent * ws[1]

(* C30: a resize never modifies the persisted percentages, the nesting tree, *)
(* the nested blocks or the drag session; and with no drag in progress,      *)
(* resizing the workspace from its size S to another size and back to S      *)
(* restores the pixel position every free block had at S.                    *)
ResizeRoundTrip ==
    [][ \A W \in WsSizes :
          Resize(W) =>
            /\ kids' = kids /\ blocks' = blocks
            /\ activeBlock' = activeBlock /\ offset' = offset
            /\ moveL' = moveL /\ upL' = upL
            /\ \A b \in Ids : Unplaced(el', b) = Unplaced(el, b)
            /\ \A b \in Ids : Parent(kids, b) # WsNode => el'[b] = el[b]
            /\ (activeBlock = NoBlock =>
                   \A b \in Items(kids) :
                       Parent(kids, b) = WsNode =>
                           UpdatePositions([ b |-> blocks', k |-> kids', e |-> el' ], ws)[b]
                             = el[b]) ]_vars

\* no drag is in progress and, after a shrink, a free block reaches beyond the
\* right edge of the workspace
IdleFreeBlockBeyondEdge ==
    /\ activeBlock = NoBlock
    /\ \E b \in Items(kids) :
           /\ Parent(kids, b) = WsNode
           /\ el[b].left > 0
           /\ el[b].left + OffsetWidth(Doc, b) > ws[1]

(* C31: whenever no drag is active, no placed block carries the class        *)
(* dragging or the raised z-index of a drag, also after a second             *)
(* pointer-down on another block before the first pointer-up.                *)
IdleHasNoDragMarker ==
    activeBlock = NoBlock =>
        \A b \in Items(kids) : ~el[b].dragging /\ el[b].zIndex # ZDrag

(* C32: in every reachable state every free block that is not being dragged  *)
(* and is no larger than the workspace lies fully inside it: 0 <= left <=    *)
(* width - blockWidth and 0 <= top <= height - blockHeight, also after a     *)
(* resize that shrinks the workspace.                                        *)
FreeBlocksInsideWorkspace ==
    \A b \in Items(kids) :
        ( /\ Parent(kids, b) = WsNode
          /\ b # activeBlock
          /\ OffsetWidth(Doc, b) <= ws[1]
          /\ OffsetHeight(Doc, b) <= ws[2] )
        => /\ 0 <= el[b].left /\ el[b].left <= ws[1] - OffsetWidth(Doc, b)
           /\ 0 <= el[b].top /\ el[b].top <= ws[2] - OffsetHeight(Doc, b)

(* C33: in the timed menu of src/js/index.ts, for every interleaving of      *)
(* button clicks, clicks outside the menu and expiries of the hide timer,    *)
(* whenever the sliding panel is open with active button b, exactly one      *)
(* category is active and it is the category of b: a hide timer started by   *)
(* an outside click never deactivates the category a later toggle shows.     *)
OpenPanelShowsItsCategory ==
    (menu.panel /\ menu.activeButton # NoKey) => menu.cats = {menu.activeButton}

(* C34: whenever no drag is active, the persisted percentages of every free  *)
(* block agree with its pixel position and the current workspace size:       *)
(* left = leftPercent / 100 * width and top = topPercent / 100 * height,     *)
(* after any sequence of drops, completed drags, removals and resizes.       *)
IdlePercentsAgree ==
    activeBlock = NoBlock =>
        \A b \in Items(kids) :
            Parent(kids, b) = WsNode =>
                /\ el[b].leftPercent # Unset /\ el[b].topPercent # Unset
                /\ el[b].left * 100 = el[b].leftPercent * ws[1]
                /\ el[b].top * 100 = el[b].topPercent * ws[2]

\* a drag that moved a block has been completed and the workspace has been
\* resized since: the block is free at percentages other than those of its drop
FreeAfterDragAndResize ==
    /\ activeBlock = NoBlock /\ moveL > 0
    /\ ws # <<800, 600>>
    /\ \E b \in Items(kids) :
           /\ Parent(kids, b) = WsNode
           /\ el[b].leftPercent \notin {Unset, 0}
           /\ \E c \in Items(kids) \ {b} :
                  Parent(kids, c) = WsNode /\ el[c].leftPercent # el[b].leftPercent

\* the tree and the styles are the same but for the place of block A: its
\* subtree is intact, every other block keeps its parent, its pixel position
\* and its order among the other children of its parent
OnlyMoved(A) ==
    /\ Subtree(kids', A) = Subtree(kids, A)
    /\ \A c \in Ids \ {A} :
           /\ Parent(kids', c) = Parent(kids, c)
           /\ el'[c].left = el[c].left /\ el'[c].top = el[c].top
           /\ el'[c].position = el[c].position
    /\ \A n \in DOMAIN kids :
           SelectSeq(kids'[n], LAMBDA x : x # A) = SelectSeq(kids[n], LAMBDA x : x # A)

(* C35: a complete drag of block B (dragStart, moves, dragEnd) changes only  *)
(* B's own parent and position: the subtree nested in B moves with it intact *)
(* (same descendants, same order), every other block keeps its parent, and   *)
(* the other children of every slot keep their relative order, both when B   *)
(* is detached and when B is inserted.                                       *)
DragMovesOnlyDraggedBlock ==
    /\ [][ \A b \in Ids :
              (\E g \in GrabPoints : DragStart(b, g, FALSE)) => OnlyMoved(b) ]_vars
    /\ [][ (\E p \in MovePoints \cup InsertPoints : MouseMove(p[1], p[2]))
            => OnlyMoved(activeBlock) ]_vars
    /\ [][ (MouseUp /\ activeBlock # NoBlock) => OnlyMoved(activeBlock) ]_vars

\* the pointer-up of a drag is pending for a block that holds a nested block,
\* and a slot of another block is resolved for it
SubtreeAboutToBeInserted ==
    /\ activeBlock \in Items(kids) /\ upL > 0
    /\ kids[activeBlock] # <<>>
    /\ ResolvedAtProbe # NoBlock
    /\ Items(kids) \ (Subtree(kids, activeBlock) \cup {ResolvedAtProbe}) # {}

(* C36: a pointer-down on a nested block, not on a removal control, starts a *)
(* drag of exactly that innermost block: the active block is the block that  *)
(* received the event, and none of its ancestors becomes active or is        *)
(* detached or marked by the same event.                                     *)
InnermostBlockIsDragged ==
    [][ \A b \in Ids :
          ((\E g \in GrabPoints : DragStart(b, g, FALSE)) /\ Parent(kids, b) \in Ids)
            => /\ activeBlock' = b
               /\ Parent(kids', b) = WsNode /\ el'[b].dragging
               /\ \A a \in Anc(kids, b) \ {WsNode} :
                      /\ Parent(kids', a) = Parent(kids, a)
                      /\ el'[a] = el[a] ]_vars

\* no drag is active and the pointer can go down on a block nested in a block
\* that is itself nested: the event bubbles through two handlers above it
PointerOverDoublyNested ==
    /\ activeBlock = NoBlock
    /\ \E b \in Items(kids), g \in GrabPoints :
           /\ Parent(kids, b) \in Ids /\ Parent(kids, Parent(kids, b)) \in Ids
           /\ LET t == ElementsFromPoint(Doc, Rect(Doc, b).left + g[1], Rect(Doc, b).top + g[2])
              IN  t # <<>> /\ Head(t).b = b

(* C37: the empty-workspace placeholder is present exactly when the          *)
(* workspace contains no placed block, and at most one placeholder exists,   *)
(* in every state after init and after any sequence of menu drops, removals, *)
(* clears and drags.                                                         *)
PlaceholderIffEmpty ==
    /\ placeholder <= 1
    /\ (placeholder = 1) <=> (Items(kids) = {})

\* blocks have been dropped and all of them have been removed again: the
\* placeholder is back
PlaceholderBackAfterRemoval ==
    /\ Len(blocks) > 0
    /\ Items(kids) = {}
    /\ placeholder = 1

\* v when it lies between lo and hi, else the nearer of the two
Within(v, low, high) == IF v < low THEN low ELSE IF v > high THEN high ELSE v

\* the block n created by a drop at (px, py) is a free child of the workspace,
\* centred on the pointer and kept inside the workspace
CentredAt(n, px, py) ==
    LET w == OffsetWidth([ b |-> blocks', k |-> kids', e |-> el' ], n)
        h == OffsetHeight([ b |-> blocks', k |-> kids', e |-> el' ], n)
    IN  /\ w <= ws[1] /\ h <= ws[2]
        /\ el'[n].position = "absolute"
        /\ el'[n].left = Within(px - WsLeft - w \div 2, 0, ws[1] - w)
        /\ el'[n].top = Within(py - WsTop - h \div 2, 0, ws[2] - h)

IsAnimatingReleased ==
    /\ [](menu.isAnimating =>
             \E i \in DOMAIN menu.timers : menu.timers[i].release)
    /\ [][ menu'.isAnimating => menu.panel \/ menu.isAnimating ]_vars
    /\ menu.isAnimating ~> ~menu.isAnimating

\* the panel is being hidden: isAnimating is set and the timer that shows the
\* next category is pending
HidingBeforeShow ==
    /\ menu.isAnimating /\ ~menu.panel
    /\ \E i \in DOMAIN menu.timers : menu.timers[i].show # NoKey

(* C40: onMove is idempotent for a fixed pointer position: when several      *)
(* leaked move listeners handle one event, the block position and the        *)
(* highlight are those of a single run of the handler, and a further run at  *)
(* the same coordinates changes nothing.                                     *)
MoveIsIdempotent ==
    [][ \A p \in MovePoints :
          MouseMove(p[1], p[2]) =>
            /\ el' = Dragging(Doc, hi, activeBlock, offset, ws, p[1], p[2]).e
            /\ hi' = Dragging(Doc, hi, activeBlock, offset, ws, p[1], p[2]).h
            /\ Dragging([ Doc EXCEPT !.e = el' ], hi', activeBlock, offset, ws, p[1], p[2])
                 = [ e |-> el', h |-> hi' ] ]_vars

\* two move listeners are registered during a drag and the last event has
\* highlighted a slot
TwoListenersHighlightedSlot ==
    /\ activeBlock \in Items(kids)
    /\ moveL >= 2
    /\ \E s \in hi : InDoc(kids, s) /\ s # activeBlock

====
